---- MODULE Spec2Model ----
(***************************************************************************)
(* A model of mingo's $bucketAuto pipeline stage                           *)
(* (src/operators/pipeline/bucketAuto.ts) and of the $sort stage that the  *)
(* sort test-suite exercises.                                              *)
(*                                                                         *)
(* A document is a record [id, key]: id is its position in the input       *)
(* collection (object identity), key is the value the groupBy / sort       *)
(* expression evaluates to on it.                                          *)
(***************************************************************************)
EXTENDS Integers, Sequences, FiniteSets, TLC

VARIABLES
  pc,        \* "new" | "failed" | "iterator" | "done"   ($bucketAuto stage)
  coll,      \* the input collection, a sequence of documents
  expr,      \* the stage's expression: [hasBuckets, buckets]
  pulled,    \* TRUE once the transform callback has consumed the collection
  result,    \* the buckets emitted
  spc,       \* "new" | "done"                           ($sort stage)
  sinput,    \* $sort: input collection
  sopts,     \* $sort: [dir, strength]
  soutput    \* $sort: output collection

vars == <<pc, coll, expr, pulled, result, spc, sinput, sopts, soutput>>

----------------------------------------------------------------------------
(* Bounds of the model *)

MaxDocs == 4        \* longest input collection
KeyMax == 3         \* keys are the numbers 1..KeyMax and the strings "1".."KeyMax"
MaxBuckets == 3     \* largest bucket count
LetterMax == 2      \* $sort keys are the letters a.. in lower and upper case

----------------------------------------------------------------------------
(* Values *)

Null == [t |-> "null", v |-> 0]
Undefined == [t |-> "undefined", v |-> 0]
Num(n) == [t |-> "number", v |-> n]
\* the string whose text is the decimal numeral of n: Str(1) is "1"
Str(n) == [t |-> "string", v |-> n]

KeyValues ==
  {Null, Undefined} \cup {Num(n) : n \in 1..KeyMax} \cup {Str(n) : n \in 1..KeyMax}

Max(a, b) == IF a >= b THEN a ELSE b

\* util.isNil: null or undefined
isNil(k) == k.t \in {"null", "undefined"}

\* The property name a value is coerced to when it indexes a plain object:
\* the number 1 and the string "1" both name the property "1".  A property
\* name is represented by the numeral it spells.
ToPropertyKey(k) == k.v

\* computeValue(o, groupByExpr) for a path expression: the document's field
computeValue(o) == o.key

\* util.compare on non-nil keys, as a rank: numbers order before strings,
\* numbers by value, strings by text
KeyRank(k) ==
  IF isNil(k) THEN 0
  ELSE IF k.t = "number" THEN k.v
  ELSE KeyMax + k.v

\* into(target, items): append the items to the target array
into(target, items) == target \o items

----------------------------------------------------------------------------
(* Stable sorting *)

\* as InsertByRank, but x goes in front of the elements it ties with
RECURSIVE InsertByRankBeforeTies(_, _, _)
InsertByRankBeforeTies(out, x, rk) ==
  IF out = <<>> THEN <<x>>
  ELSE IF rk[out[Len(out)]] < rk[x] THEN Append(out, x)
  ELSE Append(InsertByRankBeforeTies(SubSeq(out, 1, Len(out) - 1), x, rk),
              out[Len(out)])

\* put x into the ordered sequence out, behind every element that does not
\* order after it
RECURSIVE InsertByRank(_, _, _)
InsertByRank(out, x, rk) ==
  IF out = <<>> THEN <<x>>
  ELSE IF rk[out[Len(out)]] <= rk[x] THEN Append(out, x)
  ELSE Append(InsertByRank(SubSeq(out, 1, Len(out) - 1), x, rk), out[Len(out)])

RECURSIVE StableSort(_, _)
StableSort(seq, rk) ==
  IF seq = <<>> THEN <<>>
  ELSE InsertByRank(StableSort(SubSeq(seq, 1, Len(seq) - 1), rk), seq[Len(seq)], rk)

Range(seq) == {seq[p] : p \in 1..Len(seq)}

\* util.sortBy(collection, fn): documents with nil keys go first, in input
\* order; the others follow in ascending key order, equal keys in input order
sortBy(c) ==
  LET nils == SelectSeq(c, LAMBDA o : isNil(computeValue(o)))
      rest == SelectSeq(c, LAMBDA o : ~isNil(computeValue(o)))
      rk == [o \in Range(rest) |-> KeyRank(computeValue(o))]
  IN  nils \o StableSort(rest, rk)

----------------------------------------------------------------------------
(* $bucketAuto *)

\* as BucketCountOk, with the comparison off by one
BucketCountOkFromZero(e) == e.hasBuckets /\ e.buckets >= 0

\* assert(bucketCount > 0, ...): undefined > 0 is false
BucketCountOk(e) == e.hasBuckets /\ e.buckets > 0

\* Math.max(1, Math.round(coll.length / bucketCount)); Math.round rounds
\* halves up.  The assert leaves only bucketCount > 0; for any other count
\* the outer loop's guard  i < bucketCount  is false at once and the value
\* is never used.
approxBucketSize(len, bucketCount) ==
  IF bucketCount > 0
  THEN Max(1, (2 * len + bucketCount) \div (2 * bucketCount))
  ELSE 1

\* grouped: the plain object filled by the sortBy callback, one array per
\* property name, documents in input order
Grouped(c) ==
  [name \in 1..KeyMax |->
     SelectSeq(c, LAMBDA o : ~isNil(computeValue(o))
                             /\ ToPropertyKey(computeValue(o)) = name)]

\* remaining: the documents whose key is nil, in input order
Remaining(c) == SelectSeq(c, LAMBDA o : isNil(computeValue(o)))

\* Object.create({ min: 0, max: 0 }): no own property, min and max inherited
NewBoundaries == [hasMin |-> FALSE, min |-> Num(0), max |-> Num(0)]

\* as KeyAt, without the normalisation of nil
KeyAtRaw(sorted, index) == computeValue(sorted[index + 1])

\* the key of sorted[index], nil normalised to null
KeyAt(sorted, index) ==
  LET key == computeValue(sorted[index + 1])
  IN  IF isNil(key) THEN Null ELSE key

\* isNil(key) ? remaining : grouped[key]
GroupOf(key, grouped, remaining) ==
  IF isNil(key) THEN remaining ELSE grouped[ToPropertyKey(key)]

\* if (!has(boundaries, 'min')) boundaries.min = key
SetMin(boundaries, key) ==
  IF boundaries.hasMin THEN boundaries
  ELSE [boundaries EXCEPT !.hasMin = TRUE, !.min = key]

\* as SetLastMax, copying the new bucket's max instead of its min
SetLastMaxFromMax(res, boundaries) ==
  IF Len(res) > 0
  THEN [res EXCEPT ![Len(res)]._id.max = boundaries.max]
  ELSE res

\* if (result.length > 0) result[result.length - 1]._id.max = boundaries.min
SetLastMax(res, boundaries) ==
  IF Len(res) > 0
  THEN [res EXCEPT ![Len(res)]._id.max = boundaries.min]
  ELSE res

\* as OuterGuard, without the bound on the number of buckets
OuterGuardNoCount(i, index, len, bucketCount) == index < len

\* guard of the outer loop
OuterGuard(i, index, len, bucketCount) == i < bucketCount /\ index < len

\* guard of the inner loop
InnerGuard(j, index, len, approx) == j < approx /\ index < len

\* sorted.slice(index)
SliceFrom(sorted, index) ==
  IF index >= Len(sorted) THEN <<>> ELSE SubSeq(sorted, index + 1, Len(sorted))

\* the inner loop from iteration j on; st = [index, boundaries, bucketItems, result]
RECURSIVE Inner(_, _, _, _, _, _)
Inner(j, st, sorted, grouped, remaining, approx) ==
  IF ~InnerGuard(j, st.index, Len(sorted), approx) THEN st
  ELSE
    LET key == KeyAt(sorted, st.index)
        grp == GroupOf(key, grouped, remaining)
        b == SetMin(st.boundaries, key)
    IN  Inner(j + 1,
              [index |-> st.index + Len(grp),
               boundaries |-> b,
               bucketItems |-> into(st.bucketItems, grp),
               result |-> SetLastMax(st.result, b)],
              sorted, grouped, remaining, approx)

\* the outer loop from iteration i on
RECURSIVE Outer(_, _, _, _, _, _, _, _)
Outer(i, index, res, sorted, grouped, remaining, approx, bucketCount) ==
  IF ~OuterGuard(i, index, Len(sorted), bucketCount) THEN res
  ELSE
    LET st == Inner(0,
                    [index |-> index, boundaries |-> NewBoundaries,
                     bucketItems |-> <<>>, result |-> res],
                    sorted, grouped, remaining, approx)
        items == IF i = bucketCount - 1
                 THEN into(st.bucketItems, SliceFrom(sorted, st.index))
                 ELSE st.bucketItems
        \* output defaults to { count: { $sum: 1 } }
        bucket == [_id |-> st.boundaries, items |-> items, count |-> Len(items)]
    IN  Outer(i + 1, st.index, Append(st.result, bucket),
              sorted, grouped, remaining, approx, bucketCount)

\* the last bucket's max: the key of the last sorted document
SetFinalMax(res, sorted) ==
  IF Len(res) > 0
  THEN [res EXCEPT ![Len(res)]._id.max = computeValue(sorted[Len(sorted)])]
  ELSE res

\* the callback given to collection.transform
bucketAuto(c, bucketCount) ==
  LET sorted == sortBy(c)
      res == Outer(0, 0, <<>>, sorted, Grouped(c), Remaining(c),
                   approxBucketSize(Len(c), bucketCount), bucketCount)
  IN  SetFinalMax(res, sorted)

----------------------------------------------------------------------------
(* $sort *)

\* a one-letter string: base 1 is the letter a, 2 is b, ...; upper tells
\* "A" from "a"
Letter(b, u) == [base |-> b, upper |-> u]
Letters == {Letter(b, u) : b \in 1..LetterMax, u \in BOOLEAN}

\* the collator's order on one-letter strings as a rank: at strength 1 only
\* the base letter counts; at strength 3 the lower-case letter orders just
\* before its upper-case form
CollationRank(s, strength) ==
  IF strength = 1 THEN s.base
  ELSE 2 * s.base + (IF s.upper THEN 1 ELSE 0)

\* $sort: { key: dir } under the collation: a stable sort by the collator's
\* order, reversed for dir = -1
sort(c, opts) ==
  StableSort(c, [o \in Range(c) |-> opts.dir * CollationRank(o.key, opts.strength)])

----------------------------------------------------------------------------
(* State machine *)

Docs(keys) == [p \in 1..Len(keys) |-> [id |-> p, key |-> keys[p]]]

KeySeqs == UNION {[1..n -> KeyValues] : n \in 0..MaxDocs}

Exprs ==
  {[hasBuckets |-> FALSE, buckets |-> 0]}
    \cup {[hasBuckets |-> TRUE, buckets |-> n] : n \in -1..MaxBuckets}

Init ==
  /\ pc = "new"
  /\ coll \in {Docs(ks) : ks \in KeySeqs}
  /\ expr \in Exprs
  /\ pulled = FALSE
  /\ result = <<>>
  /\ spc = "new"
  /\ sinput = <<>>
  /\ sopts = [dir |-> 1, strength |-> 3]
  /\ soutput = <<>>

\* $bucketAuto(collection, expr, options): checks the bucket count and
\* returns the lazy iterator; the collection is not touched
Construct ==
  /\ pc = "new"
  /\ pc' = IF BucketCountOk(expr) THEN "iterator" ELSE "failed"
  /\ UNCHANGED <<coll, expr, pulled, result, spc, sinput, sopts, soutput>>

\* the first pull on the iterator runs the transform callback
Pull ==
  /\ pc = "iterator"
  /\ pulled' = TRUE
  /\ result' = bucketAuto(coll, expr.buckets)
  /\ pc' = "done"
  /\ UNCHANGED <<coll, expr, spc, sinput, sopts, soutput>>

Next == Construct \/ Pull

Spec == Init /\ [][Next]_vars

LetterSeqs == UNION {[1..n -> Letters] : n \in 0..MaxDocs}

SortOpts == [dir : {1, -1}, strength : {1, 3}]

SortInit ==
  /\ pc = "new"
  /\ coll = <<>>
  /\ expr = [hasBuckets |-> FALSE, buckets |-> 0]
  /\ pulled = FALSE
  /\ result = <<>>
  /\ spc = "new"
  /\ sinput \in {Docs(ks) : ks \in LetterSeqs}
  /\ sopts \in SortOpts
  /\ soutput = <<>>

\* $sort is blocking: the first pull sorts the whole input
Sort ==
  /\ spc = "new"
  /\ soutput' = sort(sinput, sopts)
  /\ spc' = "done"
  /\ UNCHANGED <<pc, coll, expr, pulled, result, sinput, sopts>>

SortNext == Sort

SortSpec == SortInit /\ [][SortNext]_vars

----------------------------------------------------------------------------
(* Properties of $bucketAuto *)

Done == pc = "done"

Last(seq) == seq[Len(seq)]

\* the buckets (by position) whose accumulated items hold document d
BucketsOf(d) == {b \in 1..Len(result) : d \in Range(result[b].items)}

\* how many times document d occurs in the accumulated items of all buckets
Occurrences(d) ==
  Cardinality({bp \in UNION {{b} \X DOMAIN result[b].items : b \in 1..Len(result)} :
                 result[bp[1]].items[bp[2]] = d})

NilDocs == {d \in Range(coll) : isNil(d.key)}
KeyedDocs == {d \in Range(coll) : ~isNil(d.key)}

\* C1: every input document appears in exactly one bucket, once
C1_ExactlyOneBucket ==
  Done => \A d \in Range(coll) : Occurrences(d) = 1

\* The reference of C2: runs of ceil(M/N) documents of the sorted input, each
\* extended over the documents that share its last key, the last bucket
\* taking what remains.
Min(a, b) == IF a <= b THEN a ELSE b

RefEnd(s, from) ==
  CHOOSE e \in from..Len(s) :
    /\ \A y \in from..e : KeyRank(s[y].key) = KeyRank(s[from].key)
    /\ e = Len(s) \/ KeyRank(s[e + 1].key) # KeyRank(s[from].key)

RECURSIVE RefCut(_, _, _, _)
RefCut(s, index, i, n) ==
  IF index >= Len(s) \/ i >= n THEN <<>>
  ELSE IF i = n - 1 THEN <<Range(SubSeq(s, index + 1, Len(s)))>>
  ELSE LET size == (Len(s) + n - 1) \div n
           e == RefEnd(s, Min(index + size, Len(s)))
       IN  <<Range(SubSeq(s, index + 1, e))>> \o RefCut(s, e, i + 1, n)

\* C2: the documents of each bucket are those of the reference
C2_MatchesReference ==
  Done => [b \in 1..Len(result) |-> Range(result[b].items)]
            = RefCut(sortBy(coll), 0, 0, expr.buckets)

\* C3: at most N buckets are emitted
C3_AtMostNBuckets ==
  Done => Len(result) <= expr.buckets

\* C3 witness: the bucket count, not the end of the input, ended the outer
\* loop, the last bucket having taken the remainder
C3_Witness ==
  /\ Done
  /\ Len(result) = expr.buckets
  /\ expr.buckets >= 2
  /\ \A d \in Range(coll) : Occurrences(d) = 1
  /\ \A b \in 1..(Len(result) - 1) : Len(result[b].items) = 1
  /\ Cardinality({d.key : d \in Range(Last(result).items)}) >= 2

\* C4: the boundaries of adjacent buckets chain:
\* bucket[i]._id.max = bucket[i+1]._id.min
C4_BoundariesChain ==
  Done => \A b \in 1..(Len(result) - 1) :
            result[b]._id.max = result[b + 1]._id.min

C4_Witness ==
  /\ Done
  /\ Len(result) >= 3
  /\ result[1]._id.max # result[2]._id.max

\* C5: documents with equal keys never span buckets
C5_EqualKeysOneBucket ==
  Done => \A d1, d2 \in Range(coll) :
            d1.key = d2.key =>
              \A b1 \in BucketsOf(d1), b2 \in BucketsOf(d2) : b1 = b2

\* C6 as stated: with nil and non-nil keys in the input, the first bucket
\* holds the nil-key documents and no document with a non-nil key
C6_NilBucketOfItsOwn ==
  (Done /\ NilDocs # {} /\ KeyedDocs # {}) =>
    /\ Len(result) >= 1
    /\ Range(result[1].items) = NilDocs

\* C6 amended: with nil and non-nil keys in the input, every nil-key
\* document is in the first bucket emitted, whose _id.min is null, and in no
\* other bucket
C6_NilInFirstBucket ==
  (Done /\ NilDocs # {} /\ KeyedDocs # {}) =>
    /\ Len(result) >= 1
    /\ result[1]._id.min = Null
    /\ \A d \in NilDocs : BucketsOf(d) = {1} /\ Occurrences(d) = 1

\* C6 witness: the first bucket holds nil and non-nil keys side by side
C6_Witness ==
  /\ Done
  /\ Len(result) >= 2
  /\ Cardinality(NilDocs) >= 2
  /\ NilDocs \subseteq Range(result[1].items)
  /\ KeyedDocs \cap Range(result[1].items) # {}

\* C7: the last bucket's _id.max is the greatest key of the input, and each
\* bucket's _id.min is the least key among the bucket's documents
C7_MinAndFinalMax ==
  (Done /\ coll # <<>>) =>
    /\ Len(result) >= 1
    /\ \A d \in Range(coll) : KeyRank(d.key) <= KeyRank(Last(result)._id.max)
    /\ \E d \in Range(coll) : KeyRank(d.key) = KeyRank(Last(result)._id.max)
    /\ \A b \in 1..Len(result) :
         /\ \A d \in Range(result[b].items) :
              KeyRank(result[b]._id.min) <= KeyRank(d.key)
         /\ \E d \in Range(result[b].items) :
              KeyRank(result[b]._id.min) = KeyRank(d.key)

\* C8: a bucket count that is not greater than 0 makes the stage fail at
\* construction: the collection is never read and no bucket is produced
C8_NonPositiveCountFails ==
  (~expr.hasBuckets \/ expr.buckets <= 0) =>
    (pc \in {"new", "failed"} /\ ~pulled /\ result = <<>>)

C8_Witness ==
  /\ pc = "failed"
  /\ coll # <<>>
  /\ expr.hasBuckets
  /\ expr.buckets = 0

\* C10: each bucket's _id range contains the keys of its documents (max
\* exclusive but for the last bucket), buckets ascend strictly by _id.min
\* and none is empty
C10_RangesContainKeys ==
  Done =>
    /\ \A b \in 1..Len(result) :
         /\ result[b].items # <<>>
         /\ \A d \in Range(result[b].items) :
              /\ KeyRank(result[b]._id.min) <= KeyRank(d.key)
              /\ b < Len(result) => KeyRank(d.key) < KeyRank(result[b]._id.max)
              /\ b = Len(result) => KeyRank(d.key) <= KeyRank(result[b]._id.max)
    /\ \A b \in 1..(Len(result) - 1) :
         KeyRank(result[b]._id.min) < KeyRank(result[b + 1]._id.min)

----------------------------------------------------------------------------
(* Properties of $sort *)

====
